---- MODULE Spec2Model ----
(***************************************************************************)
(* A model of SMCALC.py: the seven KPI normalizers, the weighted           *)
(* aggregator and the Streamlit script that feeds them.                    *)
(*                                                                         *)
(* Python's float is IEEE-754 binary64.  Every arithmetic operation of the *)
(* source is modelled as the exact rational result rounded to the nearest  *)
(* binary64 value, ties to even (arith = "binary64").  The same            *)
(* definitions can be read over the rationals, with no rounding            *)
(* (arith = "real"), for statements made about exact arithmetic.           *)
(***************************************************************************)
EXTENDS Integers, Sequences, FiniteSets, TLC

VARIABLES
    arith,             \* "binary64" (Python's float) or "real" (no rounding)
    pc,                \* "call" / "mid" / "return" of a direct call; "script" in the app
    fn,                \* the function a direct call invoked
    args,              \* <<actual, target, actual_sales>> of a direct call
    result,            \* what the call returned, or the exception it raised
    prev,              \* the outcome of the call before this one
    widget,            \* the number_input widgets: KPI -> [target, actual]
    kpi_inputs,        \* st.session_state.kpi_inputs
    perf_results,      \* perf_results (the aggregator's kpi_results)
    final_perf_score,  \* final_perf_score
    row,               \* the script's place: 1..7 a KPI row, 8 the aggregation, 9 done
    runs               \* reruns of the script so far

vars == <<arith, pc, fn, args, result, prev,
          widget, kpi_inputs, perf_results, final_perf_score, row, runs>>

(***************************************************************************)
(* Natural numbers of any size.  TLC's integers are 32 bits wide and a     *)
(* binary64 significand has 53, so a natural number is a little-endian     *)
(* sequence of limbs in 0..Base-1 with no high zero limb; <<>> is zero.    *)
(***************************************************************************)
LimbBits == 15

Base == 2^LimbBits

Limb(a, i) == IF i <= Len(a) THEN a[i] ELSE 0

Zeros(n) == [i \in 1..n |-> 0]

RECURSIVE NTrim(_)
NTrim(a) ==
    IF a = <<>> THEN a
    ELSE IF a[Len(a)] = 0 THEN NTrim(SubSeq(a, 1, Len(a) - 1)) ELSE a

RECURSIVE NAddFrom(_, _, _, _)
NAddFrom(a, b, i, c) ==
    IF i > Len(a) /\ i > Len(b)
    THEN (IF c = 0 THEN <<>> ELSE <<c>>)
    ELSE LET s == Limb(a, i) + Limb(b, i) + c
         IN  <<s % Base>> \o NAddFrom(a, b, i + 1, s \div Base)

NAdd(a, b) == NAddFrom(a, b, 1, 0)

RECURSIVE NSubFrom(_, _, _, _)
NSubFrom(a, b, i, br) ==
    IF i > Len(a) THEN <<>>
    ELSE LET d == a[i] - Limb(b, i) - br
         IN  IF d < 0 THEN <<d + Base>> \o NSubFrom(a, b, i + 1, 1)
                      ELSE <<d>> \o NSubFrom(a, b, i + 1, 0)

\* a - b for a >= b
NSub(a, b) == NTrim(NSubFrom(a, b, 1, 0))

RECURSIVE NCmpAt(_, _, _)
NCmpAt(a, b, i) ==
    IF i = 0 THEN 0
    ELSE IF a[i] > b[i] THEN 1
    ELSE IF a[i] < b[i] THEN -1
    ELSE NCmpAt(a, b, i - 1)

NCmp(a, b) ==
    IF Len(a) > Len(b) THEN 1
    ELSE IF Len(a) < Len(b) THEN -1
    ELSE NCmpAt(a, b, Len(a))

RECURSIVE NMulSmallFrom(_, _, _, _)
NMulSmallFrom(a, k, i, c) ==
    IF i > Len(a)
    THEN (IF c = 0 THEN <<>> ELSE <<c>>)
    ELSE LET p == a[i] * k + c
         IN  <<p % Base>> \o NMulSmallFrom(a, k, i + 1, p \div Base)

\* a * k for a limb k
NMulSmall(a, k) ==
    IF k = 0 THEN <<>> ELSE IF k = 1 THEN a ELSE NMulSmallFrom(a, k, 1, 0)

RECURSIVE NMulFrom(_, _, _)
NMulFrom(a, b, i) ==
    IF i > Len(b) THEN <<>>
    ELSE IF b[i] = 0 THEN NMulFrom(a, b, i + 1)
    ELSE NAdd(Zeros(i - 1) \o NMulSmall(a, b[i]), NMulFrom(a, b, i + 1))

NMul(a, b) ==
    IF a = <<>> \/ b = <<>> THEN <<>>
    ELSE IF b = <<1>> THEN a
    ELSE IF a = <<1>> THEN b
    ELSE NMulFrom(a, b, 1)

\* a * 2^k
NShl(a, k) ==
    IF a = <<>> \/ k = 0 THEN a
    ELSE Zeros(k \div LimbBits) \o NMulSmall(a, 2^(k % LimbBits))

\* floor(a / 2^k)
NShr(a, k) ==
    LET q == k \div LimbBits
        r == k % LimbBits
        n == Len(a) - q
    IN  IF k = 0 THEN a
        ELSE IF n <= 0 THEN <<>>
        ELSE NTrim([i \in 1..n |->
                      (a[i + q] \div 2^r)
                      + (Limb(a, i + q + 1) % 2^r) * 2^(LimbBits - r)])

RECURSIVE BitLenSmall(_)
BitLenSmall(x) == IF x = 0 THEN 0 ELSE 1 + BitLenSmall(x \div 2)

NBitLen(a) ==
    IF a = <<>> THEN 0 ELSE LimbBits * (Len(a) - 1) + BitLenSmall(a[Len(a)])

\* bit i of a, bit 0 the lowest
NBit(a, i) == (Limb(a, i \div LimbBits + 1) \div 2^(i % LimbBits)) % 2

RECURSIVE TzSmall(_)
TzSmall(x) == IF x % 2 = 1 THEN 0 ELSE 1 + TzSmall(x \div 2)

RECURSIVE NTzFrom(_, _)
NTzFrom(a, i) ==
    IF a[i] = 0 THEN LimbBits + NTzFrom(a, i + 1) ELSE TzSmall(a[i])

\* the number of trailing zero bits of a # 0
NTz(a) == NTzFrom(a, 1)

RECURSIVE DigitSearch(_, _, _, _)
\* the largest limb k in lo..hi with b * k <= rem, given b * lo <= rem
DigitSearch(rem, b, lo, hi) ==
    IF lo = hi THEN lo
    ELSE LET mid == (lo + hi + 1) \div 2
         IN  IF NCmp(NMulSmall(b, mid), rem) <= 0
             THEN DigitSearch(rem, b, mid, hi)
             ELSE DigitSearch(rem, b, lo, mid - 1)

RECURSIVE NDivFrom(_, _, _, _)
\* long division, from limb i of a down, with the running remainder rem < b
NDivFrom(a, b, i, rem) ==
    IF i = 0 THEN [q |-> <<>>, r |-> rem]
    ELSE LET cur  == NTrim(<<a[i]>> \o rem)
             dg   == IF NCmp(cur, b) < 0 THEN 0
                     ELSE DigitSearch(cur, b, 1, Base - 1)
             rest == NDivFrom(a, b, i - 1,
                              IF dg = 0 THEN cur ELSE NSub(cur, NMulSmall(b, dg)))
         IN  [q |-> Append(rest.q, dg), r |-> rest.r]

(***************************************************************************)
(* The operators below call one another through the single recursive       *)
(* operator Do, so that TLC's cost model of an arithmetic operation is     *)
(* built once for every place that uses it and not once for every path     *)
(* through the definitions.  Name(...) is the operation; NameImpl(...) is  *)
(* its definition.  Where an operation rounds, its first parameter m is    *)
(* the arithmetic it is read in, "binary64" or "real"; Invoke and Lit,     *)
(* further down, pass the arithmetic of the run, arith.                    *)
(***************************************************************************)
RECURSIVE Do(_, _)

\* quotient and remainder of a by b # 0
NDivMod(a, b) == Do("NDivMod", <<a, b>>)

\* the reduced form of x; with reduce, num and den are also made coprime
Canon(x, reduce) == Do("Canon", <<x, reduce>>)

\* q * 2^exp (plus a nonzero tail when sticky) to Precision bits, ties to even
RoundMant(sgn, q, sticky, exp) == Do("RoundMant", <<sgn, q, sticky, exp>>)

\* the binary64 value nearest to x
Round64(x) == Do("Round64", <<x>>)

\* the value an operation of the given mode returns for the exact result x
FlM(mode, x) == Do("FlM", <<mode, x>>)

RawMul(x, y) == Do("RawMul", <<x, y>>)

\* y # 0
RawDiv(x, y) == Do("RawDiv", <<x, y>>)

RawAdd(x, y) == Do("RawAdd", <<x, y>>)

\* -1, 0, 1 as x < y, x = y, x > y: comparisons are exact
Cmp(x, y) == Do("Cmp", <<x, y>>)

\* x / y
PyDiv(m, x, y) == Do("PyDiv", <<m, x, y>>)

\* x * y
PyMul(m, x, y) == Do("PyMul", <<m, x, y>>)

\* x + y
PyAdd(m, x, y) == Do("PyAdd", <<m, x, y>>)

\* x - y
PySub(m, x, y) == Do("PySub", <<m, x, y>>)

\* min(x, y): x unless y < x
PyMin(x, y) == Do("PyMin", <<x, y>>)

\* max(x, y): x unless y > x
PyMax(x, y) == Do("PyMax", <<x, y>>)

NDivModImpl(a, b) ==
    LET qr == NDivFrom(a, b, Len(a), <<>>) IN [q |-> NTrim(qr.q), r |-> qr.r]

RECURSIVE NGcd(_, _)
NGcd(a, b) == IF b = <<>> THEN a ELSE NGcd(b, NDivMod(a, b).r)

RECURSIVE NFromInt(_)
NFromInt(k) == IF k = 0 THEN <<>> ELSE <<k % Base>> \o NFromInt(k \div Base)

(***************************************************************************)
(* Numbers.  A number is sgn * (num / den) * 2^exp with num and den odd    *)
(* naturals (num = <<>> and sgn = 0 for zero).  A binary64 value has       *)
(* den = 1 and num < 2^53; in the canonical form equal numbers are equal   *)
(* records.  Exponents of the bounded inputs stay far from the binary64    *)
(* limits, so overflow and subnormals do not arise.                        *)
(***************************************************************************)
Zero == [sgn |-> 0, num |-> <<>>, den |-> <<1>>, exp |-> 0]

Precision == 53

CanonImpl(x, reduce) ==
    IF x.num = <<>> THEN Zero
    ELSE LET tn == NTz(x.num)
             td == NTz(x.den)
             n1 == NShr(x.num, tn)
             d1 == NShr(x.den, td)
             g  == IF reduce /\ d1 # <<1>> THEN NGcd(n1, d1) ELSE <<1>>
         IN  [sgn |-> x.sgn,
              num |-> IF g = <<1>> THEN n1 ELSE NDivMod(n1, g).q,
              den |-> IF g = <<1>> THEN d1 ELSE NDivMod(d1, g).q,
              exp |-> x.exp + tn - td]

RoundMantImpl(sgn, q, sticky, exp) ==
    LET len == NBitLen(q)
    IN  IF len <= Precision
        THEN Canon([sgn |-> sgn, num |-> q, den |-> <<1>>, exp |-> exp], FALSE)
        ELSE LET drop  == len - Precision
                 m     == NShr(q, drop)
                 guard == NBit(q, drop - 1) = 1
                 st    == sticky \/ NTz(q) < drop - 1
                 up    == guard /\ (st \/ NBit(m, 0) = 1)
                 m2    == IF up THEN NAdd(m, <<1>>) ELSE m
             IN  Canon([sgn |-> sgn, num |-> m2, den |-> <<1>>,
                        exp |-> exp + drop], FALSE)

Round64Impl(x) ==
    IF x.num = <<>> THEN Zero
    ELSE IF x.den = <<1>> THEN RoundMant(x.sgn, x.num, FALSE, x.exp)
    ELSE LET k  == NBitLen(x.num) - NBitLen(x.den)
             sh == Precision + 2 - k
             dm == NDivMod(NShl(x.num, sh), x.den)
         IN  RoundMant(x.sgn, dm.q, dm.r # <<>>, x.exp - sh)

FlMImpl(mode, x) == IF mode = "binary64" THEN Round64(x) ELSE Canon(x, TRUE)

\* the unrounded quotient n/d of two integers, d > 0
Raw(n, d) ==
    [sgn |-> IF n > 0 THEN 1 ELSE IF n < 0 THEN -1 ELSE 0,
     num |-> NFromInt(IF n < 0 THEN -n ELSE n),
     den |-> NFromInt(d), exp |-> 0]

Neg(x) == [x EXCEPT !.sgn = -x.sgn]

RawMulImpl(x, y) ==
    [sgn |-> x.sgn * y.sgn, num |-> NMul(x.num, y.num),
     den |-> NMul(x.den, y.den), exp |-> x.exp + y.exp]

RawDivImpl(x, y) ==
    [sgn |-> x.sgn * y.sgn, num |-> NMul(x.num, y.den),
     den |-> NMul(x.den, y.num), exp |-> x.exp - y.exp]

RawAddImpl(x, y) ==
    IF x.sgn = 0 THEN y
    ELSE IF y.sgn = 0 THEN x
    ELSE LET e == IF x.exp < y.exp THEN x.exp ELSE y.exp
             A == NShl(NMul(x.num, y.den), x.exp - e)
             B == NShl(NMul(y.num, x.den), y.exp - e)
             d == NMul(x.den, y.den)
             c == NCmp(A, B)
         IN  IF x.sgn = y.sgn
             THEN [sgn |-> x.sgn, num |-> NAdd(A, B), den |-> d, exp |-> e]
             ELSE IF c = 0 THEN Zero
             ELSE IF c > 0
             THEN [sgn |-> x.sgn, num |-> NSub(A, B), den |-> d, exp |-> e]
             ELSE [sgn |-> y.sgn, num |-> NSub(B, A), den |-> d, exp |-> e]

CmpImpl(x, y) == IF x = y THEN 0 ELSE RawAdd(x, Neg(y)).sgn

(***************************************************************************)
(* Python values: a number, None, or a raised exception.                   *)
(***************************************************************************)
None == [none |-> TRUE]

TypeError == [raise |-> "TypeError"]

ZeroDivisionError == [raise |-> "ZeroDivisionError"]

IsNum(v) == "sgn" \in DOMAIN v

IsRaise(v) == "raise" \in DOMAIN v

\* v == 0 (False for None)
IsZero(v) == IsNum(v) /\ v.sgn = 0

Lt(x, y) == Cmp(x, y) < 0
Le(x, y) == Cmp(x, y) <= 0
Gt(x, y) == Cmp(x, y) > 0
Ge(x, y) == Cmp(x, y) >= 0

PyDivImpl(mode, x, y) ==
    IF IsRaise(x) THEN x
    ELSE IF IsRaise(y) THEN y
    ELSE IF ~IsNum(x) \/ ~IsNum(y) THEN TypeError
    ELSE IF y.sgn = 0 THEN ZeroDivisionError
    ELSE FlM(mode, RawDiv(x, y))

PyMulImpl(mode, x, y) ==
    IF IsRaise(x) THEN x
    ELSE IF IsRaise(y) THEN y
    ELSE IF ~IsNum(x) \/ ~IsNum(y) THEN TypeError
    ELSE FlM(mode, RawMul(x, y))

PyAddImpl(mode, x, y) ==
    IF IsRaise(x) THEN x
    ELSE IF IsRaise(y) THEN y
    ELSE IF ~IsNum(x) \/ ~IsNum(y) THEN TypeError
    ELSE FlM(mode, RawAdd(x, y))

PySubImpl(mode, x, y) ==
    IF IsRaise(x) THEN x
    ELSE IF IsRaise(y) THEN y
    ELSE IF ~IsNum(x) \/ ~IsNum(y) THEN TypeError
    ELSE FlM(mode, RawAdd(x, Neg(y)))

PyMinImpl(x, y) ==
    IF IsRaise(x) THEN x
    ELSE IF IsRaise(y) THEN y
    ELSE IF ~IsNum(x) \/ ~IsNum(y) THEN TypeError
    ELSE IF Lt(y, x) THEN y ELSE x

PyMaxImpl(x, y) ==
    IF IsRaise(x) THEN x
    ELSE IF IsRaise(y) THEN y
    ELSE IF ~IsNum(x) \/ ~IsNum(y) THEN TypeError
    ELSE IF Gt(y, x) THEN y ELSE x

\* the float an integer converts to (exact for the small integers used)
Float(k) ==
    IF k = 0 THEN Zero
    ELSE LET n  == NFromInt(IF k < 0 THEN -k ELSE k)
             tz == NTz(n)
         IN  [sgn |-> IF k < 0 THEN -1 ELSE 1, num |-> NShr(n, tz),
              den |-> <<1>>, exp |-> tz]

One == Float(1)

Modes == {"binary64", "real"}

MaxTwentieth == 25

\* the decimal literals n/d of the source and of the inputs, as each mode reads them
LitKeys == {<<6, 5>>, <<3, 10>>, <<1, 5>>, <<1, 10>>, <<1, 2>>}
           \cup {<<k, 20>> : k \in -20..MaxTwentieth}

LitTable == [m \in Modes |-> [k \in LitKeys |-> FlM(m, Raw(k[1], k[2]))]]

Literal(m, n, d) == LitTable[m][<<n, d>>]

\* try: v  except ZeroDivisionError: return 0.0
ExceptZeroDivision(v) == IF v = ZeroDivisionError THEN Zero ELSE v

(***************************************************************************)
(* Faulty variants of the normalizers below, one slip each.  A property    *)
(* that is said to hold of a normalizer must fail for its variant.         *)
(***************************************************************************)
\* Sales without the cap of line 16
sales_uncapped(m, actual_sales, forecast_sales) ==
    IF forecast_sales = None \/ IsZero(forecast_sales) \/ actual_sales = None
    THEN Zero
    ELSE ExceptZeroDivision(PyDiv(m, actual_sales, forecast_sales))

\* Wastage with > for the >= of line 33
wastage_strict_worst(m, actual_wastage, actual_sales, wastage_target_amount) ==
    IF actual_wastage = None \/ actual_sales = None \/ wastage_target_amount = None
    THEN Zero
    ELSE IF Le(actual_wastage, wastage_target_amount) THEN One
    ELSE IF IsZero(wastage_target_amount) THEN Zero
    ELSE IF Gt(actual_wastage, PyMul(m, wastage_target_amount, Literal(m, 6, 5)))
         THEN Zero
    ELSE LET denominator == PyMul(m, wastage_target_amount, Float(20))
             accepted ==
                 PySub(m, One,
                       PyMul(m, PySub(m, actual_wastage, wastage_target_amount),
                             PyDiv(m, Float(100), denominator)))
         IN  PyMax(Zero, PyMin(accepted, One))

\* Turnover with a slope of 4 for the 5.0 of line 88
turnover_slope_four(m, actual_separations, target_separations) ==
    IF actual_separations = None \/ target_separations = None
    THEN Zero
    ELSE IF Le(actual_separations, target_separations) THEN One
    ELSE IF IsZero(target_separations) THEN Zero
    ELSE IF Ge(actual_separations, PyMul(m, target_separations, Literal(m, 6, 5)))
         THEN Zero
    ELSE LET performance ==
               PySub(m, One,
                     PyMul(m, PySub(m, PyDiv(m, actual_separations, target_separations),
                                    One),
                           Float(4)))
         IN  PyMax(Zero, PyMin(performance, One))

\* Mystery shopper without the guard of line 94
mystery_shopper_unguarded(m, actual_value) ==
    ExceptZeroDivision(PyMin(PyDiv(m, actual_value, Float(100)), One))

(***************************************************************************)
(* The normalizers, lines 11-118.                                          *)
(***************************************************************************)
calculate_sales_performance(m, actual_sales, forecast_sales) ==
    IF forecast_sales = None \/ IsZero(forecast_sales) \/ actual_sales = None
    THEN Zero
    ELSE ExceptZeroDivision(
           LET res == PyDiv(m, actual_sales, forecast_sales)
           IN  PyMin(res, One))

calculate_wastage_performance(m, actual_wastage, actual_sales, wastage_target_amount) ==
    IF actual_wastage = None \/ actual_sales = None \/ wastage_target_amount = None
    THEN Zero
    ELSE ExceptZeroDivision(
           LET wastage_percentage ==
                   IF ~IsZero(actual_sales) THEN PyDiv(m, actual_wastage, actual_sales)
                                            ELSE Zero
           IN  IF IsRaise(wastage_percentage) THEN wastage_percentage
               ELSE IF ~IsNum(actual_wastage) \/ ~IsNum(wastage_target_amount)
                    THEN TypeError
               ELSE IF Le(actual_wastage, wastage_target_amount) THEN One
               ELSE IF IsZero(wastage_target_amount) THEN Zero
               ELSE IF Ge(actual_wastage,
                          PyMul(m, wastage_target_amount, Literal(m, 6, 5)))
                    THEN Zero
               ELSE LET denominator == PyMul(m, wastage_target_amount, Float(20))
                    IN  IF IsZero(denominator) THEN Zero
                        ELSE LET accepted ==
                                   PySub(m, One,
                                         PyMul(m, PySub(m, actual_wastage,
                                                        wastage_target_amount),
                                               PyDiv(m, Float(100), denominator)))
                             IN  PyMax(Zero, PyMin(accepted, One)))

calculate_opex_performance(m, actual_opex, target_opex, actual_sales) ==
    IF actual_opex = None \/ target_opex = None \/ actual_sales = None
    THEN Zero
    ELSE ExceptZeroDivision(
           IF IsZero(actual_sales) THEN Zero
           ELSE LET opex_target_percentage == PyDiv(m, target_opex, actual_sales)
                    actual_opex_percentage == PyDiv(m, actual_opex, actual_sales)
                IN  IF IsRaise(opex_target_percentage) THEN opex_target_percentage
                    ELSE IF IsRaise(actual_opex_percentage) THEN actual_opex_percentage
                    ELSE IF Le(actual_opex_percentage, opex_target_percentage) THEN One
                    ELSE IF IsZero(opex_target_percentage) THEN Zero
                    ELSE IF Ge(actual_opex_percentage,
                               PyMul(m, opex_target_percentage, Literal(m, 6, 5)))
                         THEN Zero
                    ELSE LET denominator == PyMul(m, opex_target_percentage, Float(20))
                         IN  IF IsZero(denominator) THEN Zero
                             ELSE LET accepted ==
                                        PySub(m, One,
                                              PyMul(m, PySub(m, actual_opex_percentage,
                                                          opex_target_percentage),
                                                    PyDiv(m, Float(100), denominator)))
                                  IN  PyMax(Zero, PyMin(accepted, One)))

calculate_turnover_performance(m, actual_separations, target_separations) ==
    IF actual_separations = None \/ target_separations = None
    THEN Zero
    ELSE ExceptZeroDivision(
           IF ~IsNum(actual_separations) \/ ~IsNum(target_separations)
           THEN TypeError
           ELSE IF Le(actual_separations, target_separations) THEN One
           ELSE IF IsZero(target_separations) THEN Zero
           ELSE IF Ge(actual_separations,
                      PyMul(m, target_separations, Literal(m, 6, 5)))
                THEN Zero
           ELSE LET performance ==
                      PySub(m, One,
                            PyMul(m, PySub(m, PyDiv(m, actual_separations,
                                                    target_separations),
                                           One),
                                  Float(5)))
                IN  PyMax(Zero, PyMin(performance, One)))

calculate_mystery_shopper_performance(m, actual_value) ==
    IF actual_value = None THEN Zero
    ELSE ExceptZeroDivision(PyMin(PyDiv(m, actual_value, Float(100)), One))

calculate_excellence_performance(m, actual_value) ==
    IF actual_value = None THEN Zero
    ELSE ExceptZeroDivision(PyMin(PyDiv(m, actual_value, Float(100)), One))

calculate_behavioural_performance(m, actual_value) ==
    IF actual_value = None THEN Zero
    ELSE ExceptZeroDivision(PyMin(PyDiv(m, actual_value, Float(5)), One))

(***************************************************************************)
(* The aggregator, lines 120-138.                                          *)
(***************************************************************************)
\* kpi_results.get(name, 0)
Get(kpi_results, name) ==
    IF name \in DOMAIN kpi_results THEN kpi_results[name] ELSE Zero

calculate_final_performance(m, kpi_results) ==
    LET sales_perf    == PyMul(m, Get(kpi_results, "Sales"), Literal(m, 3, 10))
        wastage_perf  == PyMul(m, Get(kpi_results, "Wastage"), Literal(m, 3, 10))
        opex_perf     == PyMul(m, Get(kpi_results, "OPEX"), Literal(m, 1, 5))
        turnover_perf == PyMul(m, Get(kpi_results, "Turnover"), Literal(m, 1, 5))
        excellence_perf ==
            PyMul(m, Get(kpi_results, "Excellence check"), Literal(m, 1, 5))
        mystery_shopper_perf ==
            PyMul(m, Get(kpi_results, "Mystery shopper"), Literal(m, 1, 5))
        behavioural_perf == PyMul(m, Get(kpi_results, "Behaviour"), Literal(m, 1, 10))
        operations ==
            PyAdd(m, PyAdd(m, PyAdd(m, sales_perf, wastage_perf), opex_perf),
                  turnover_perf)
    IN  PyAdd(m, PyAdd(m, PyAdd(m, PyMul(m, operations, Literal(m, 1, 2)),
                                excellence_perf),
                       mystery_shopper_perf),
              behavioural_perf)

(***************************************************************************)
(* The script, lines 219-344.  Streamlit runs it top to bottom once, and   *)
(* again after every change of a widget.                                   *)
(***************************************************************************)
\* the rows with Wastage ahead of Sales: a faulty variant of kpis
kpis_wastage_first ==
    << [name |-> "Wastage",          target |-> Float(0),   actual |-> Float(0)],
       [name |-> "Sales",            target |-> Float(0),   actual |-> Float(0)],
       [name |-> "OPEX",             target |-> Float(0),   actual |-> Float(0)],
       [name |-> "Turnover",         target |-> Float(0),   actual |-> Float(0)],
       [name |-> "Mystery shopper",  target |-> Float(100), actual |-> Float(0)],
       [name |-> "Excellence check", target |-> Float(100), actual |-> Float(0)],
       [name |-> "Behaviour",        target |-> Float(5),   actual |-> Float(0)] >>

kpis ==
    << [name |-> "Sales",            target |-> Float(0),   actual |-> Float(0)],
       [name |-> "Wastage",          target |-> Float(0),   actual |-> Float(0)],
       [name |-> "OPEX",             target |-> Float(0),   actual |-> Float(0)],
       [name |-> "Turnover",         target |-> Float(0),   actual |-> Float(0)],
       [name |-> "Mystery shopper",  target |-> Float(100), actual |-> Float(0)],
       [name |-> "Excellence check", target |-> Float(100), actual |-> Float(0)],
       [name |-> "Behaviour",        target |-> Float(5),   actual |-> Float(0)] >>

KpiNames == {kpis[i].name : i \in 1..Len(kpis)}

Defaults ==
    [k \in KpiNames |->
        LET i == CHOOSE j \in 1..Len(kpis) : kpis[j].name = k
        IN  [target |-> kpis[i].target, actual |-> kpis[i].actual]]

\* `x and x != 0`
Truthy(x) == x # None /\ ~IsZero(x)

\* perf_results[kpi_name] of one row, lines 303-335
ScoreRow(m, kpi_name, target_input, actual_input, inputs) ==
    IF target_input = None \/ actual_input = None THEN None
    ELSE LET sales_actual == inputs["Sales"].actual
             wastage_amount ==
                 IF Truthy(sales_actual) THEN PyMul(m, actual_input, sales_actual)
                                         ELSE Zero
             target_amount ==
                 IF Truthy(sales_actual) THEN PyMul(m, target_input, sales_actual)
                                         ELSE Zero
             v == CASE kpi_name = "Sales" ->
                         calculate_sales_performance(m, actual_input, target_input)
                    [] kpi_name = "Wastage" ->
                         IF IsRaise(wastage_amount) THEN wastage_amount
                         ELSE IF IsRaise(target_amount) THEN target_amount
                         ELSE calculate_wastage_performance(m, wastage_amount,
                                                            sales_actual, target_amount)
                    [] kpi_name = "OPEX" ->
                         calculate_opex_performance(m, actual_input, target_input,
                                                    sales_actual)
                    [] kpi_name = "Turnover" ->
                         calculate_turnover_performance(m, actual_input, target_input)
                    [] kpi_name = "Mystery shopper" ->
                         calculate_mystery_shopper_performance(m, actual_input)
                    [] kpi_name = "Excellence check" ->
                         calculate_excellence_performance(m, actual_input)
                    [] kpi_name = "Behaviour" ->
                         calculate_behavioural_performance(m, actual_input)
                    [] OTHER ->
                         IF Truthy(target_input) THEN PyDiv(m, actual_input, target_input)
                                                 ELSE Zero
         IN  IF IsRaise(v) THEN Zero ELSE v

Do(op, x) ==
    CASE op = "NDivMod"   -> NDivModImpl(x[1], x[2])
      [] op = "Canon"     -> CanonImpl(x[1], x[2])
      [] op = "RoundMant" -> RoundMantImpl(x[1], x[2], x[3], x[4])
      [] op = "Round64"   -> Round64Impl(x[1])
      [] op = "FlM"       -> FlMImpl(x[1], x[2])
      [] op = "RawMul"    -> RawMulImpl(x[1], x[2])
      [] op = "RawDiv"    -> RawDivImpl(x[1], x[2])
      [] op = "RawAdd"    -> RawAddImpl(x[1], x[2])
      [] op = "Cmp"       -> CmpImpl(x[1], x[2])
      [] op = "PyDiv"     -> PyDivImpl(x[1], x[2], x[3])
      [] op = "PyMul"     -> PyMulImpl(x[1], x[2], x[3])
      [] op = "PyAdd"     -> PyAddImpl(x[1], x[2], x[3])
      [] op = "PySub"     -> PySubImpl(x[1], x[2], x[3])
      [] op = "PyMin"     -> PyMinImpl(x[1], x[2])
      [] op = "PyMax"     -> PyMaxImpl(x[1], x[2])
      [] op = "calculate_sales_performance" ->
             calculate_sales_performance(x[1], x[2], x[3])
      [] op = "calculate_wastage_performance" ->
             calculate_wastage_performance(x[1], x[2], x[3], x[4])
      [] op = "calculate_opex_performance" ->
             calculate_opex_performance(x[1], x[2], x[3], x[4])
      [] op = "calculate_turnover_performance" ->
             calculate_turnover_performance(x[1], x[2], x[3])
      [] op = "calculate_mystery_shopper_performance" ->
             calculate_mystery_shopper_performance(x[1], x[2])
      [] op = "calculate_excellence_performance" ->
             calculate_excellence_performance(x[1], x[2])
      [] op = "calculate_behavioural_performance" ->
             calculate_behavioural_performance(x[1], x[2])
      [] op = "calculate_final_performance" ->
             calculate_final_performance(x[1], x[2])
      [] op = "ScoreRow" -> ScoreRow(x[1], x[2], x[3], x[4], x[5])

\* a call of the named function on the arguments a, in the arithmetic of the run
Invoke(f, a) == Do(f, <<arith>> \o a)

\* a literal or an input n/d, in the arithmetic of the run
Lit(n, d) == Literal(arith, n, d)

MaxRuns == 2

\* the values a user types into a widget
Entered == {Float(-200), Float(2)}

NoCall == /\ pc = "script" /\ fn = "none" /\ args = <<>> /\ result = None /\ prev = None

NoScript ==
    /\ widget = <<>> /\ kpi_inputs = <<>> /\ perf_results = <<>>
    /\ final_perf_score = None /\ row = 0 /\ runs = 0

Init ==
    /\ arith = "binary64"
    /\ NoCall
    /\ widget = Defaults
    /\ kpi_inputs = Defaults
    /\ perf_results = <<>>
    /\ final_perf_score = None
    /\ row = 1
    /\ runs = 0

\* one pass of the loop of line 251: read the row's widgets, score the row
Row ==
    /\ row \in 1..Len(kpis)
    /\ LET kpi_name == kpis[row].name
           inputs   == [kpi_inputs EXCEPT ![kpi_name] = widget[kpi_name]]
       IN  /\ kpi_inputs' = inputs
           /\ perf_results' =
                  (kpi_name :> Invoke("ScoreRow", <<kpi_name, inputs[kpi_name].target,
                                       inputs[kpi_name].actual, inputs>>))
                  @@ perf_results
    /\ row' = row + 1
    /\ UNCHANGED <<arith, pc, fn, args, result, prev, widget, final_perf_score, runs>>

\* line 344
Final ==
    /\ row = Len(kpis) + 1
    /\ final_perf_score' = Invoke("calculate_final_performance", <<perf_results>>)
    /\ row' = row + 1
    /\ UNCHANGED <<arith, pc, fn, args, result, prev, widget, kpi_inputs,
                   perf_results, runs>>

\* the user changes one widget, and the script runs again from the top
Edit ==
    /\ row = Len(kpis) + 2
    /\ runs < MaxRuns
    /\ \E k \in KpiNames, f \in {"target", "actual"}, v \in Entered :
          /\ v # widget[k][f]
          /\ widget' = [widget EXCEPT ![k][f] = v]
    /\ perf_results' = <<>>
    /\ final_perf_score' = None
    /\ row' = 1
    /\ runs' = runs + 1
    /\ UNCHANGED <<arith, pc, fn, args, result, prev, kpi_inputs>>

Next == Row \/ Final \/ Edit

Spec == Init /\ [][Next]_vars

(***************************************************************************)
(* Direct calls of the normalizers: args = <<actual, target, actual_sales>>*)
(***************************************************************************)
MaxNum == 3

ArgValues == {None} \cup {Float(k) : k \in -MaxNum..MaxNum}

Call(name, value) ==
    /\ pc = "call"
    /\ fn' = name
    /\ result' = value
    /\ pc' = "return"
    /\ UNCHANGED <<arith, args, prev, widget, kpi_inputs, perf_results,
                   final_perf_score, row, runs>>

CallSales ==
    Call("Sales", Invoke("calculate_sales_performance", <<args[1], args[2]>>))

CallWastage ==
    Call("Wastage",
         Invoke("calculate_wastage_performance", <<args[1], args[3], args[2]>>))

CallOpex ==
    Call("OPEX", Invoke("calculate_opex_performance", <<args[1], args[2], args[3]>>))

CallTurnover ==
    Call("Turnover", Invoke("calculate_turnover_performance", <<args[1], args[2]>>))

CallMysteryShopper ==
    Call("Mystery shopper", Invoke("calculate_mystery_shopper_performance", <<args[1]>>))

CallExcellence ==
    Call("Excellence check", Invoke("calculate_excellence_performance", <<args[1]>>))

CallBehavioural ==
    Call("Behaviour", Invoke("calculate_behavioural_performance", <<args[1]>>))

InitNormalizers ==
    /\ arith = "binary64"
    /\ pc = "call" /\ fn = "none" /\ result = None /\ prev = None
    /\ args \in ArgValues \X ArgValues \X ArgValues
    /\ NoScript

NextNormalizers ==
    \/ CallSales \/ CallWastage \/ CallOpex \/ CallTurnover
    \/ CallMysteryShopper \/ CallExcellence \/ CallBehavioural

SpecNormalizers == InitNormalizers /\ [][NextNormalizers]_vars

(***************************************************************************)
(* The penalty curves of Wastage and OPEX: a call, then calls with the     *)
(* same target and sales and a higher actual.  The inputs are decimals in  *)
(* steps of 0.05, as typed: Typed(11) is float("0.55").                    *)
(***************************************************************************)
Typed(k) == Lit(k, 20)

CurveActuals == {Typed(k) : k \in {-2, 0} \cup 9..MaxTwentieth}

CurveTargets == {Typed(10), Typed(20)}

CurveSales == {Typed(-20), Zero, Typed(2), Typed(20)}

InitCurve ==
    /\ arith = "binary64"
    /\ pc = "call" /\ fn = "none" /\ result = None /\ prev = None
    /\ args \in CurveActuals \X CurveTargets \X CurveSales
    /\ NoScript

CallHigher ==
    /\ pc = "return"
    /\ \E a2 \in CurveActuals :
          /\ Gt(a2, args[1])
          /\ args' = <<a2, args[2], args[3]>>
          /\ result' = IF fn = "Wastage"
                       THEN Invoke("calculate_wastage_performance",
                                   <<a2, args[3], args[2]>>)
                       ELSE Invoke("calculate_opex_performance",
                                   <<a2, args[2], args[3]>>)
    /\ prev' = [actual |-> args[1], result |-> result]
    /\ UNCHANGED <<arith, pc, fn, widget, kpi_inputs, perf_results,
                   final_perf_score, row, runs>>

NextCurve == CallWastage \/ CallOpex \/ CallHigher

SpecCurve == InitCurve /\ [][NextCurve]_vars

(***************************************************************************)
(* Turnover and Wastage on the same (actual, target), over the rationals.  *)
(***************************************************************************)
RealValues == {Typed(k) : k \in -3..MaxTwentieth}

RealSales == {Zero, Typed(20)}

InitReal ==
    /\ arith = "real"
    /\ pc = "call" /\ fn = "none" /\ result = None /\ prev = None
    /\ args \in RealValues \X RealValues \X RealSales
    /\ NoScript

TurnoverFirst ==
    /\ pc = "call"
    /\ fn' = "Turnover"
    /\ prev' = [actual |-> args[1],
                result |-> Invoke("calculate_turnover_performance",
                                  <<args[1], args[2]>>)]
    /\ pc' = "mid"
    /\ UNCHANGED <<arith, args, result, widget, kpi_inputs, perf_results,
                   final_perf_score, row, runs>>

WastageSecond ==
    /\ pc = "mid"
    /\ fn' = "Wastage"
    /\ result' = Invoke("calculate_wastage_performance", <<args[1], args[3], args[2]>>)
    /\ pc' = "return"
    /\ UNCHANGED <<arith, args, prev, widget, kpi_inputs, perf_results,
                   final_perf_score, row, runs>>

NextReal == TurnoverFirst \/ WastageSecond

SpecReal == InitReal /\ [][NextReal]_vars

(***************************************************************************)
(* Direct calls of the aggregator: each KPI name is missing from the       *)
(* mapping, maps to None, or maps to a number.                             *)
(***************************************************************************)
MaxAbsent == 1

Missing == [missing |-> TRUE]

Dict(m) == [k \in {n \in KpiNames : m[n] # Missing} |-> m[k]]

AggregatorInputs ==
    {Dict(m) : m \in {e \in [KpiNames -> {Missing, None, Zero, One}] :
                         Cardinality({k \in KpiNames : ~IsNum(e[k])}) <= MaxAbsent}}

InitAggregator ==
    /\ arith = "binary64"
    /\ pc = "call" /\ fn = "none" /\ args = <<>> /\ result = None /\ prev = None
    /\ widget = <<>> /\ kpi_inputs = <<>>
    /\ perf_results \in AggregatorInputs
    /\ final_perf_score = None /\ row = 0 /\ runs = 0

CallFinal ==
    /\ pc = "call"
    /\ fn' = "calculate_final_performance"
    /\ final_perf_score' = Invoke("calculate_final_performance", <<perf_results>>)
    /\ pc' = "return"
    /\ UNCHANGED <<arith, args, result, prev, widget, kpi_inputs, perf_results,
                   row, runs>>

NextAggregator == CallFinal

SpecAggregator == InitAggregator /\ [][NextAggregator]_vars

(***************************************************************************)
(* The properties.                                                         *)
(***************************************************************************)
\* 0.0 <= v <= 1.0
InUnit(v) == IsNum(v) /\ Ge(v, Zero) /\ Le(v, One)

\* 0.0 < v < 1.0
InsideUnit(v) == IsNum(v) /\ Gt(v, Zero) /\ Lt(v, One)

\* a direct call of the named function has returned
Returned(name) == pc = "return" /\ fn = name

NormalizerNames ==
    {"Sales", "Wastage", "OPEX", "Turnover", "Mystery shopper", "Excellence check",
     "Behaviour"}

\* the positions in args of the arguments the named normalizer takes
Required(name) ==
    CASE name \in {"Sales", "Turnover"} -> {1, 2}
      [] name \in {"Wastage", "OPEX"}   -> {1, 2, 3}
      [] OTHER                           -> {1}

\* C1: every normalizer, called with numbers only (zero and negative ones
\* included), returns a performance in [0.0, 1.0].
C1_NormalizersInUnit ==
    (/\ pc = "return"
     /\ fn \in NormalizerNames
     /\ \A i \in Required(fn) : IsNum(args[i]))
    => InUnit(result)

\* kpi_results with 0.0 in the place of every missing or None entry
Defaulted(kpi_results) ==
    [k \in KpiNames |->
        IF k \in DOMAIN kpi_results /\ IsNum(kpi_results[k]) THEN kpi_results[k]
                                                             ELSE Zero]

\* C2: the aggregator never fails; on a mapping in which a KPI is missing,
\* None or a number it returns what it returns with 0.0 for every missing or
\* None entry.
C2_AbsentCountsAsZero ==
    Returned("calculate_final_performance")
    => /\ IsNum(final_perf_score)
       /\ final_perf_score =
              Invoke("calculate_final_performance", <<Defaulted(perf_results)>>)

\* C3: the aggregator returns (Sales*0.30 + Wastage*0.30 + OPEX*0.20 +
\* Turnover*0.20)*0.5 + Excellence*0.20 + MysteryShopper*0.20 + Behaviour*0.10:
\* 1.0 when all seven results are 1.0, 0.0 when all are 0.0, and 0.15 when
\* Sales is 1.0 and the others are 0.0.
C3_AggregatorValues ==
    (/\ Returned("calculate_final_performance")
     /\ DOMAIN perf_results = KpiNames
     /\ \A k \in KpiNames : IsNum(perf_results[k]))
    => /\ (\A k \in KpiNames : perf_results[k] = One) => final_perf_score = One
       /\ (\A k \in KpiNames : perf_results[k] = Zero) => final_perf_score = Zero
       /\ (\A k \in KpiNames : perf_results[k] = IF k = "Sales" THEN One ELSE Zero)
          => final_perf_score = Lit(3, 20)

\* C4: at the end of every run of the script, whatever numbers were entered
\* as targets and actuals, the final score is in [0.0, 1.0].
C4_FinalInUnit ==
    row = Len(kpis) + 2 => InUnit(final_perf_score)

\* C5: Wastage, for a target > 0 and any sales: 1.0 when actual <= target;
\* 0.0 when actual >= target * 1.2; in between it is
\* 1.0 - (actual - target) * (100 / (target * 20)) and strictly between 0
\* and 1; and a higher actual never scores higher.
C5_WastageCurve ==
    (Returned("Wastage") /\ Gt(args[2], Zero))
    => LET actual == args[1]
           target == args[2]
           worst  == PyMul(arith, target, Lit(6, 5))
       IN  /\ Le(actual, target) => result = One
           /\ Ge(actual, worst) => result = Zero
           /\ (Gt(actual, target) /\ Lt(actual, worst))
              => /\ result =
                      PySub(arith, One,
                            PyMul(arith, PySub(arith, actual, target),
                                  PyDiv(arith, Float(100),
                                        PyMul(arith, target, Float(20)))))
                 /\ InsideUnit(result)
           /\ (prev # None /\ Lt(prev.actual, actual)) => Le(result, prev.result)

\* C5 witness: a Wastage call strictly inside the penalty band, made after a
\* call with a lower actual that scored higher.
C5_Witness ==
    /\ Returned("Wastage")
    /\ prev # None
    /\ Gt(args[1], args[2])
    /\ InsideUnit(result)
    /\ Lt(result, prev.result)

\* C6: OPEX, for a target > 0 and sales # 0: 1.0 when actual == target, 0.0
\* when actual == target * 1.2, and a higher actual never scores higher.
C6_OpexCurve ==
    (Returned("OPEX") /\ Gt(args[2], Zero) /\ ~IsZero(args[3]))
    => /\ args[1] = args[2] => result = One
       /\ args[1] = PyMul(arith, args[2], Lit(6, 5)) => result = Zero
       /\ (prev # None /\ Lt(prev.actual, args[1])) => Le(result, prev.result)

\* C7: Sales returns 0.0 when the target is None or 0 or the actual is
\* None, and min(actual / target, 1.0) otherwise; so it is 1.0 whenever
\* actual >= target > 0.
C7_SalesDefinition ==
    Returned("Sales")
    => LET actual == args[1]
           target == args[2]
           ratio  == PyDiv(arith, actual, target)
       IN  IF target = None \/ IsZero(target) \/ actual = None
           THEN result = Zero
           ELSE /\ result = IF Lt(One, ratio) THEN One ELSE ratio
                /\ (Gt(target, Zero) /\ Ge(actual, target)) => result = One

\* C7 witness: Sales called with actual = 2 * target, target > 0, returned 1.0.
C7_Witness ==
    /\ Returned("Sales")
    /\ args[2] = Float(1)
    /\ args[1] = Float(2)
    /\ result = One

\* C8: every normalizer returns a number whatever mix of None, zero,
\* negative and positive arguments it gets; 0.0 when an argument it needs is
\* None; and 0.0 on a zero denominator (Sales target 0, OPEX sales 0,
\* Wastage or Turnover target 0 with the actual above it).
C8_NormalizersTotal ==
    (pc = "return" /\ fn \in NormalizerNames)
    => /\ IsNum(result)
       /\ (\E i \in Required(fn) : args[i] = None) => result = Zero
       /\ (\A i \in Required(fn) : IsNum(args[i]))
          => /\ (fn = "Sales" /\ IsZero(args[2])) => result = Zero
             /\ (fn = "OPEX" /\ IsZero(args[3])) => result = Zero
             /\ (fn \in {"Wastage", "Turnover"} /\ IsZero(args[2])
                 /\ Gt(args[1], Zero)) => result = Zero

\* C8 witness: OPEX called with numbers and sales of zero returned 0.0, not
\* an error.
C8_Witness ==
    /\ Returned("OPEX")
    /\ IsNum(args[1]) /\ IsNum(args[2])
    /\ Gt(args[1], args[2])
    /\ IsZero(args[3])
    /\ result = Zero

\* the results a run yields when they depend on nothing but the values
\* entered in that run
ResultsOf(entered) ==
    [k \in KpiNames |->
        Invoke("ScoreRow", <<k, entered[k].target, entered[k].actual, entered>>)]

\* C9: after any sequence of runs, the KPI results and the final score of a
\* run are a function of the targets and actuals entered in that run alone;
\* Wastage and OPEX use the Sales actual of the same run.
C9_RunsIndependent ==
    row = Len(kpis) + 2
    => /\ perf_results = ResultsOf(widget)
       /\ final_perf_score =
              Invoke("calculate_final_performance", <<ResultsOf(widget)>>)

\* C9 witness: a third run, after the Wastage actual and then the Sales
\* actual were changed, has scored Wastage with the new Sales actual.
C9_Witness ==
    /\ row = Len(kpis) + 2
    /\ runs = 2
    /\ widget["Sales"].actual = Float(2)
    /\ widget["Wastage"].actual = Float(2)
    /\ kpi_inputs["Sales"].actual = Float(2)
    /\ perf_results["Wastage"] = Zero

\* C10: over the rationals, Turnover on (actual, target) and Wastage on
\* (actual, any sales, target) return the same value, for targets of any
\* sign and zero.
C10_TurnoverIsWastage ==
    (pc = "return" /\ arith = "real") => result = prev.result

\* C10 witness: both were called inside the penalty band, where their
\* formulas differ, and returned the same value strictly between 0 and 1.
C10_Witness ==
    /\ pc = "return"
    /\ arith = "real"
    /\ fn = "Wastage"
    /\ Gt(args[1], args[2])
    /\ InsideUnit(result)
    /\ result = prev.result
====
